---- MODULE Spec2Model ----
(***************************************************************************)
(* WatchDog: anomaly detection over accounting transactions.               *)
(*                                                                         *)
(* Two programs live in the repository and both are modelled here:         *)
(*   prog = "stat"  src/anomaly_detector.py  AnomalyDetector.run_detection *)
(*                  (percentage threshold rule, saves to a table)          *)
(*   prog = "main"  src/main.py              AnomalyDetector.run           *)
(*                  (Isolation Forest, LLM narrative, alert channels, CSV) *)
(*                                                                         *)
(* Amounts are integers and every quotient is kept as an exact fraction;   *)
(* binary floating point rounding of pandas is not modelled.               *)
(***************************************************************************)
EXTENDS Integers, Sequences, FiniteSets, TLC

VARIABLES
    prog,                 \* which program runs
    pc,                   \* position inside run_detection / run
    result,               \* "running", "ok" (returned) or "error" (raised)
    setting,              \* the config.setting row behind setting_key
    percentage_threshold, \* self.percentage_threshold (None until loaded)
    cfg,                  \* main.py configuration after __init__
    df,                   \* the loaded transaction batch
    excluded,             \* rows of the window that the query's WHERE left out
    loaded,               \* pd.read_sql: "no" (not called), "ok" or "failed"
    featured,             \* prepare_features has run
    computed,             \* a detector has run over the batch
    fits,                 \* number of scaler/model fits in this run
    fitted,               \* self.scaler and self.isolation_forest are fitted
    oracle,               \* sklearn's scores for this batch and seed, once known
    calls,                \* what each call of detect_anomalies returned
    df_clean,             \* rows given to the model, with their two columns
    anomalies,            \* the anomaly set returned by the detector
    table,                \* rows appended to anomaly_table
    records_saved,        \* second component of run_detection's result
    alerts,               \* list built by generate_alert_messages
    llm_calls,            \* requests.post calls made by _call_llm, per anomaly
    sent,                 \* per dispatched alert: channel attempts and outcomes
    printed,              \* stage summary lines written by send_alerts / run
    report,               \* rows written by _save_report, or <<>> when none
    email_in,             \* one email delivery: settings, anomalies, server
    email_out             \* what that delivery did and returned

vars == << prog, pc, result, setting, percentage_threshold, cfg, df, excluded,
           loaded, featured, computed, fits, fitted, oracle, calls, df_clean, anomalies,
           table, records_saved, alerts, llm_calls, sent, printed, report,
           email_in, email_out >>

(***************************************************************************)
(* Bounds and input domains                                                *)
(***************************************************************************)
MaxRows == 3
\* calls of detect_anomalies on one batch
MaxCalls == 2

Accounts == {1, 2}
Dates == {1, 2}
\* rep_GLSource rows pass "ISNULL(curDebit,0) - ISNULL(curCredit,0) > 0"
StatAmounts == {1, 5, 6}
\* vw_GLSource_daily carries signed amounts
MainAmounts == {-1, 0, 1}
\* debit minus credit of the rows of rep_GLSource, before the WHERE clause
SourceAmounts == StatAmounts \cup {-5, 0}
Thresholds == {-50, 0, 25, 50}

None == [some |-> FALSE, v |-> 0]
Some(x) == [some |-> TRUE, v |-> x]

Row(a, d, m) == [accountID |-> a, dtmDate |-> d, amount |-> m]

\* "ORDER BY accountID, dtmDate": rows arrive sorted by that key; rows with
\* the same key come in any order.
KeyLE(r, s) ==
    \/ r.accountID < s.accountID
    \/ r.accountID = s.accountID /\ r.dtmDate <= s.dtmDate

Ordered(b) == \A i \in 1..(Len(b) - 1) : KeyLE(b[i], b[i + 1])

RowsOf(amounts) == { Row(a, d, m) : a \in Accounts, d \in Dates, m \in amounts }

Batches(amounts) ==
    { b \in UNION { [1..n -> RowsOf(amounts)] : n \in 0..MaxRows } : Ordered(b) }

\* glAccount join: number and description are functions of accountID
AccountNumber(a) == 1000 + a
AccountName(a) == 2000 + a

(***************************************************************************)
(* Per-account aggregates (groupby('accountID')['amount'])                 *)
(***************************************************************************)
Group(b, a) == { i \in 1..Len(b) : b[i].accountID = a }

RECURSIVE SumOver(_, _)
SumOver(b, S) ==
    IF S = {} THEN 0
    ELSE LET i == CHOOSE x \in S : TRUE
         IN  b[i].amount + SumOver(b, S \ {i})

AccountSum(b, a) == SumOver(b, Group(b, a))
AccountCount(b, a) == Cardinality(Group(b, a))

(***************************************************************************)
(* src/anomaly_detector.py                                                 *)
(***************************************************************************)
SettingRows ==
    { [kind |-> "missing", v |-> 0], [kind |-> "nonnumeric", v |-> 0],
      [kind |-> "unreachable", v |-> 0] }
    \cup { [kind |-> "numeric", v |-> t] : t \in Thresholds }

\* get_percentage_threshold: the value, or a raised exception
GetPercentageThresholdNoRaise(s) ==
    IF s.kind = "numeric" THEN [raised |-> FALSE, value |-> s.v]
    ELSE [raised |-> FALSE, value |-> 50]

GetPercentageThreshold(s) ==
    IF s.kind = "unreachable" THEN [raised |-> TRUE, value |-> 0]
    ELSE IF s.kind = "missing" THEN [raised |-> TRUE, value |-> 0]
    ELSE IF s.kind = "nonnumeric" THEN [raised |-> TRUE, value |-> 0]
    ELSE [raised |-> FALSE, value |-> s.v]

\* pct_diff_from_avg >= T for a row of amount m in a group of sum s over n
\* rows: ((m - s/n) / (s/n)) * 100 >= T.  A zero mean gives +-inf or NaN.
PctGEStrict(m, s, n, T) ==
    IF s > 0 THEN (m * n - s) * 100 > T * s
    ELSE IF s < 0 THEN (m * n - s) * 100 < T * s
    ELSE m > 0

PctGE(m, s, n, T) ==
    IF s > 0 THEN (m * n - s) * 100 >= T * s
    ELSE IF s < 0 THEN (m * n - s) * 100 <= T * s
    ELSE m > 0

\* pct_diff_from_avg of row i, as the fraction 100 * (m * n - s) over s
PctDiff(b, i) ==
    [ num |-> 100 * (b[i].amount * AccountCount(b, b[i].accountID)
                       - AccountSum(b, b[i].accountID)),
      den |-> AccountSum(b, b[i].accountID) ]

StatRecord(b, i, T) ==
    [ idx |-> i,
      accountID |-> b[i].accountID,
      dtmDate |-> b[i].dtmDate,
      amount |-> b[i].amount,
      sum |-> AccountSum(b, b[i].accountID),
      n |-> AccountCount(b, b[i].accountID),
      pct_diff_from_avg |-> PctDiff(b, i),
      threshold_used |-> T ]

RECURSIVE Ascending(_)
\* the indices of S in increasing order (a boolean mask keeps row order)
Ascending(S) ==
    IF S = {} THEN << >>
    ELSE LET m == CHOOSE x \in S : \A y \in S : x <= y
         IN  << m >> \o Ascending(S \ {m})

\* calculate_averages_and_detect
CalculateAveragesAndDetect(b, T) ==
    LET flagged(i) == PctGE(b[i].amount, AccountSum(b, b[i].accountID),
                            AccountCount(b, b[i].accountID), T)
        keep == Ascending({ i \in 1..Len(b) : flagged(i) })
    IN  [ k \in 1..Len(keep) |-> StatRecord(b, keep[k], T) ]

(***************************************************************************)
(* src/main.py: prepare_features, detect_anomalies                         *)
(***************************************************************************)
\* the k-th smallest amount (k = 1..n) of the rows S of b
KthAmount(b, S, k) ==
    CHOOSE v \in { b[i].amount : i \in S } :
        /\ Cardinality({ i \in S : b[i].amount < v }) < k
        /\ Cardinality({ i \in S : b[i].amount <= v }) >= k

\* twice the median of the account's amounts
MedianTwice(b, a) ==
    LET S == Group(b, a)
        n == Cardinality(S)
    IN  IF n % 2 = 1 THEN 2 * KthAmount(b, S, (n + 1) \div 2)
        ELSE KthAmount(b, S, n \div 2) + KthAmount(b, S, n \div 2 + 1)

\* amount_std is NaN for a single row (ddof = 1) and 0 when all rows agree
StdDefinedNonZero(b, a) ==
    /\ AccountCount(b, a) >= 2
    /\ \E i, j \in Group(b, a) : b[i].amount # b[j].amount

\* ratio_vs_avg = amount / avg_year_amount.replace(0, nan)
RatioDefined(b, i) == AccountSum(b, b[i].accountID) # 0

\* z_score = (amount - avg) / amount_std.replace(0, nan)
ZScoreDefined(b, i) == StdDefinedNonZero(b, b[i].accountID)

\* pct_diff_median = (amount - median) / median.replace(0, nan) * 100
PctDiffMedianDefined(b, i) == MedianTwice(b, b[i].accountID) # 0

\* dropna(subset = feature_cols), then inf -> nan and dropna again
EligibleAll(b) == 1..Len(b)

Eligible(b) ==
    { i \in 1..Len(b) :
        RatioDefined(b, i) /\ ZScoreDefined(b, i) /\ PctDiffMedianDefined(b, i) }

\* score_samples values; only their order decides the prediction
ScoreVals == {1, 2}

\* the k-th smallest score (k = 1..n) over the rows E
KthScore(sc, E, k) ==
    CHOOSE v \in { sc[i] : i \in E } :
        /\ Cardinality({ i \in E : sc[i] < v }) < k
        /\ Cardinality({ i \in E : sc[i] <= v }) >= k

\* fit_predict(...) == -1: score_samples < offset_, where offset_ is
\* np.percentile(scores, 100 * contamination) with linear interpolation.
\* Both sides are multiplied by the contamination's denominator.
IsOutlierAll(sc, E, c, i) == TRUE

IsOutlierAtOffset(sc, E, c, i) ==
    LET n == Cardinality(E)
        pos == c.num * (n - 1)
        lo == pos \div c.den
        rem == pos - lo * c.den
        slo == KthScore(sc, E, lo + 1)
        shi == IF rem = 0 THEN slo ELSE KthScore(sc, E, lo + 2)
    IN  sc[i] * c.den <= slo * c.den + rem * (shi - slo)

IsOutlier(sc, E, c, i) ==
    LET n == Cardinality(E)
        pos == c.num * (n - 1)
        lo == pos \div c.den
        rem == pos - lo * c.den
        slo == KthScore(sc, E, lo + 1)
        shi == IF rem = 0 THEN slo ELSE KthScore(sc, E, lo + 2)
    IN  sc[i] * c.den < slo * c.den + rem * (shi - slo)

\* The scores that fit_predict and score_samples give for one call.  fit
\* discards whatever an earlier fit left (prior) and, with an integer
\* random_state, seeds a new generator: the scores are a function of the
\* data and the seed, memo once that function has been evaluated.  With
\* random_state null the global generator decides anew (fresh).
NoScores == [some |-> FALSE, v |-> << >>]

FitScoresWarm(seed, prior, memo, fresh) ==
    IF seed.some /\ memo.some /\ ~prior THEN memo.v ELSE fresh

FitScores(seed, prior, memo, fresh) ==
    IF seed.some /\ memo.some THEN memo.v ELSE fresh

\* row i of df_clean once the if_prediction and if_score columns are set
CleanRow(b, E, sc, c, i) ==
    [ idx |-> i,
      accountID |-> b[i].accountID,
      dtmDate |-> b[i].dtmDate,
      amount |-> b[i].amount,
      sum |-> AccountSum(b, b[i].accountID),
      n |-> AccountCount(b, b[i].accountID),
      if_prediction |-> IF IsOutlier(sc, E, c, i) THEN -1 ELSE 1,
      if_score |-> sc[i] ]

\* df_clean over the eligible rows E, for the scores sc of the model
DfClean(b, E, sc, c) == [ i \in E |-> CleanRow(b, E, sc, c, i) ]

\* df_clean['is_anomaly'] = (df_clean['if_prediction'] == -1)
IsAnomalyOrRule(row) ==
    row.if_prediction = -1 \/ PctGE(row.amount, row.sum, row.n, 0)

IsAnomaly(row) == row.if_prediction = -1

\* "if len(df_clean) == 0: return pd.DataFrame()"
NoValidDataNever(E) == FALSE

NoValidData(E) == E = {}

\* anomalies = df_clean[df_clean['is_anomaly']].copy()
DetectAnomalies(b, E, sc, c) ==
    LET clean == DfClean(b, E, sc, c)
        keep == Ascending({ i \in E : IsAnomaly(clean[i]) })
    IN  [ k \in 1..Len(keep) |-> clean[keep[k]] ]

(***************************************************************************)
(* Text.  A text is a sequence of tokens [k, v]: whitespace, a word of the *)
(* generator, a literal of a template, or a rendered field.                *)
(***************************************************************************)
Tok(k, v) == [k |-> k, v |-> v]
WS == Tok("ws", 0)
Word == Tok("word", 0)

RECURSIVE LStrip(_)
LStrip(t) == IF t # << >> /\ Head(t) = WS THEN LStrip(Tail(t)) ELSE t

RECURSIVE RStrip(_)
RStrip(t) ==
    IF t # << >> /\ t[Len(t)] = WS THEN RStrip(SubSeq(t, 1, Len(t) - 1)) ELSE t

\* str.strip()
Strip(t) == RStrip(LStrip(t))

\* format(x, ".2f") of the fraction num/den (den > 0): hundredths, rounded
\* to nearest, ties to even
Fmt2(num, den) ==
    LET r == 100 * num
        q == r \div den
        rem == r - q * den
    IN  IF 2 * rem < den THEN q
        ELSE IF 2 * rem > den THEN q + 1
        ELSE IF q % 2 = 0 THEN q ELSE q + 1

\* alert_data of generate_alert_messages for one anomaly row; the ratio
\* amount / (sum / n) is kept as amount * n over sum, with sum made positive
AlertData(row) ==
    [ account_number |-> AccountNumber(row.accountID),
      account_name |-> AccountName(row.accountID),
      date |-> row.dtmDate,
      amount |-> row.amount,
      yearly_average |-> [num |-> row.sum, den |-> row.n],
      ratio |-> IF row.sum > 0
                THEN [num |-> row.amount * row.n, den |-> row.sum]
                ELSE [num |-> -(row.amount * row.n), den |-> -row.sum],
      detection_method |-> "Isolation Forest",
      isolation_score |-> row.if_score ]

FieldTokens(d) ==
    << Tok("account_number", d.account_number),
       Tok("account_name", d.account_name),
       Tok("date", d.date),
       Tok("amount", Fmt2(d.amount, 1)),
       Tok("yearly_average", Fmt2(d.yearly_average.num, d.yearly_average.den)),
       Tok("ratio", Fmt2(d.ratio.num, d.ratio.den)),
       Tok("detection_method", 0) >>

(***************************************************************************)
(* src/llm_generator.py.  The file holds both sides of an unresolved merge *)
(* (HEAD and b766129); cfg.variant says which side is in effect.           *)
(***************************************************************************)
Variants == {"HEAD", "b766129"}

RawTexts == { << >>, << WS >>, << Word >>, << WS, Word, WS >> }

LLMOutcomes ==
    { [kind |-> "text", body |-> t] : t \in RawTexts }
    \cup { [kind |-> k, body |-> << >>] :
             k \in {"timeout", "http_error", "not_json", "no_field"} }

\* _call_llm: requests.post(timeout=30), raise_for_status, json,
\* result.get('response', '').strip()
CallLLM(o) ==
    IF o.kind \in {"timeout", "http_error", "not_json"}
    THEN [raised |-> TRUE, text |-> << >>]
    ELSE IF o.kind = "no_field" THEN [raised |-> FALSE, text |-> Strip(<< >>)]
    ELSE [raised |-> FALSE, text |-> Strip(o.body)]

\* LLMAlertGenerator._generate_fallback_message
GeneratorFallbackNoRatio(variant, d) ==
    << Tok("lit", 1) >> \o SubSeq(FieldTokens(d), 1, 5) \o << Tok("lit", 2) >>

GeneratorFallback(variant, d) ==
    IF variant = "HEAD"
    THEN << Tok("lit", 1) >> \o FieldTokens(d)
         \o << Tok("isolation_score", d.isolation_score), Tok("lit", 2) >>
    ELSE << Tok("lit", 3) >> \o FieldTokens(d) \o << Tok("lit", 4) >>

\* LLMAlertGenerator.generate_alert
GenerateAlertRetry(c, d, o) ==
    IF ~c.enabled
    THEN [raised |-> FALSE, message |-> GeneratorFallback(c.variant, d),
          path |-> "fallback", calls |-> 0]
    ELSE LET r == CallLLM(o)
         IN  IF r.raised
             THEN [raised |-> FALSE, message |-> GeneratorFallback(c.variant, d),
                   path |-> "fallback", calls |-> 2]
             ELSE [raised |-> FALSE, message |-> r.text, path |-> "llm",
                   calls |-> 1]

GenerateAlert(c, d, o) ==
    IF ~c.enabled
    THEN [raised |-> FALSE, message |-> GeneratorFallback(c.variant, d),
          path |-> "fallback", calls |-> 0]
    ELSE LET r == CallLLM(o)
         IN  IF r.raised
             THEN [raised |-> FALSE, message |-> GeneratorFallback(c.variant, d),
                   path |-> "fallback", calls |-> 1]
             ELSE [raised |-> FALSE, message |-> r.text, path |-> "llm",
                   calls |-> 1]

\* AnomalyDetector._generate_fallback_message (main.py)
MainFallback(d) ==
    << Tok("lit", 5) >> \o FieldTokens(d)
    \o << Tok("isolation_score", d.isolation_score), Tok("lit", 6) >>

\* one iteration of the loop of generate_alert_messages
ComposeOne(c, row, o) ==
    LET d == AlertData(row)
        g == GenerateAlert(c, d, o)
    IN  IF g.raised
        THEN [data |-> d, message |-> MainFallback(d), path |-> "main_fallback",
              calls |-> g.calls]
        ELSE [data |-> d, message |-> g.message, path |-> g.path,
              calls |-> g.calls]

(***************************************************************************)
(* src/alert_system.py                                                     *)
(***************************************************************************)
Channels == {"email", "teams", "slack"}

\* smtplib.SMTP(...) has no timeout: a silent server blocks the call ("hang")
EmailOutcomes == {"ok", "smtp_error", "error", "hang"}
\* requests.post(timeout=10): status 200, another status, or an exception
\* (connection error, timeout)
WebhookOutcomes == {"ok", "status", "exception"}

Skipped == [att |-> 0, res |-> "none", ctl |-> "returned"]

\* what the SMTP session of _send_email runs into, for a server behaving as
\* o: with authentication enabled and no username or password, ValueError
\* is raised once the server is connected, before login and send_message
SmtpSession(c, o) ==
    IF o = "ok" /\ ~c.smtp_credentials THEN "error" ELSE o

\* _send_email: every Exception is caught and printed
SendEmailNoCatch(o) ==
    [ att |-> 1,
      res |-> IF o = "ok" THEN "ok" ELSE "fail",
      ctl |-> IF o = "hang" THEN "blocked"
              ELSE IF o = "ok" THEN "returned" ELSE "raised" ]

SendEmail(o) ==
    [ att |-> 1,
      res |-> IF o = "ok" THEN "ok" ELSE "fail",
      ctl |-> IF o = "hang" THEN "blocked" ELSE "returned" ]

\* _send_teams: a non-200 status is printed, every Exception is caught
SendTeamsNoCatch(o) ==
    [ att |-> 1,
      res |-> IF o = "ok" THEN "ok" ELSE "fail",
      ctl |-> IF o = "exception" THEN "raised" ELSE "returned" ]

SendTeams(o) ==
    [ att |-> 1,
      res |-> IF o = "ok" THEN "ok" ELSE "fail",
      ctl |-> "returned" ]

\* _send_slack
SendSlack(o) ==
    [ att |-> 1,
      res |-> IF o = "ok" THEN "ok" ELSE "fail",
      ctl |-> "returned" ]

\* AlertSystem.send_alert: email, then Teams, then Slack; a call that does
\* not return ends the method
SendAlertRetry(c, oe, ot, os) ==
    LET e == IF c.emails THEN SendEmail(SmtpSession(c, oe)) ELSE Skipped
        t == IF c.teams THEN SendTeams(ot) ELSE Skipped
        t2 == IF c.teams /\ t.res = "fail" THEN SendTeams(ot) ELSE Skipped
        s == IF c.slack THEN SendSlack(os) ELSE Skipped
    IN  [ att |-> [ch \in Channels |->
                     IF ch = "email" THEN e.att
                     ELSE IF ch = "teams" THEN t.att + t2.att ELSE s.att],
          res |-> [ch \in Channels |->
                     IF ch = "email" THEN e.res
                     ELSE IF ch = "teams" THEN t.res ELSE s.res],
          ctl |-> e.ctl ]

SendAlert(c, oe, ot, os) ==
    LET e == IF c.emails THEN SendEmail(SmtpSession(c, oe)) ELSE Skipped
        t == IF e.ctl = "returned" /\ c.teams THEN SendTeams(ot) ELSE Skipped
        s == IF e.ctl = "returned" /\ t.ctl = "returned" /\ c.slack
             THEN SendSlack(os) ELSE Skipped
    IN  [ att |-> [ch \in Channels |->
                     IF ch = "email" THEN e.att
                     ELSE IF ch = "teams" THEN t.att ELSE s.att],
          res |-> [ch \in Channels |->
                     IF ch = "email" THEN e.res
                     ELSE IF ch = "teams" THEN t.res ELSE s.res],
          ctl |-> IF e.ctl # "returned" THEN e.ctl
                  ELSE IF t.ctl # "returned" THEN t.ctl ELSE s.ctl ]

(***************************************************************************)
(* One SMTP delivery: AlertSystem._send_email (src/alert_system.py) and   *)
(* EmailAlertSystem.send_alert / _send_smtp (src/email_alert.py)          *)
(***************************************************************************)
SmtpSteps == {"connect", "starttls", "login", "send", "quit"}

\* how the server answers each step: it accepts, the step raises, or the
\* step never returns (smtplib.SMTP is given no timeout)
ServerBehaviours == [SmtpSteps -> {"ok", "raise", "hang"}]

\* the statements between "try:" and "finally:", in order; "check" is the
\* ValueError that _send_email raises itself for missing credentials
TryBody(tls, auth) ==
    (IF tls THEN << "starttls" >> ELSE << >>) \o auth \o << "send" >>

StepOutcome(step, srv) == IF step = "check" THEN "raise" ELSE srv[step]

\* position of the first statement of body that does not succeed, or 0
FirstFailure(body, srv) ==
    IF \A k \in 1..Len(body) : StepOutcome(body[k], srv) = "ok" THEN 0
    ELSE CHOOSE k \in 1..Len(body) :
             /\ StepOutcome(body[k], srv) # "ok"
             /\ \A j \in 1..(k - 1) : StepOutcome(body[j], srv) = "ok"

NoSession == [attempts |-> 0, opened |-> 0, quits |-> 0, ctl |-> "returned"]

\* server = smtplib.SMTP(...); try: body finally: server.quit()
RunSmtpNoFinally(body, srv) ==
    IF srv["connect"] # "ok"
    THEN [ attempts |-> 1, opened |-> 0, quits |-> 0,
           ctl |-> IF srv["connect"] = "hang" THEN "blocked" ELSE "raised" ]
    ELSE LET f == FirstFailure(body, srv)
         IN  IF f # 0
             THEN [ attempts |-> 1, opened |-> 1, quits |-> 0,
                    ctl |-> IF StepOutcome(body[f], srv) = "hang"
                            THEN "blocked" ELSE "raised" ]
             ELSE [ attempts |-> 1, opened |-> 1, quits |-> 1,
                    ctl |-> IF srv["quit"] = "hang" THEN "blocked"
                            ELSE IF srv["quit"] = "raise" THEN "raised"
                            ELSE "returned" ]

RunSmtp(body, srv) ==
    IF srv["connect"] # "ok"
    THEN [ attempts |-> 1, opened |-> 0, quits |-> 0,
           ctl |-> IF srv["connect"] = "hang" THEN "blocked" ELSE "raised" ]
    ELSE LET f == FirstFailure(body, srv)
         IN  IF f # 0 /\ StepOutcome(body[f], srv) = "hang"
             THEN [ attempts |-> 1, opened |-> 1, quits |-> 0,
                    ctl |-> "blocked" ]
             ELSE [ attempts |-> 1, opened |-> 1, quits |-> 1,
                    ctl |-> IF srv["quit"] = "hang" THEN "blocked"
                            ELSE IF f # 0 \/ srv["quit"] = "raise"
                            THEN "raised" ELSE "returned" ]

\* The settings of one delivery.  recipients: a recipient is configured;
\* keys: everything send_alert reads with [] is present (from_name,
\* from_email, smtp_server, smtp_port, the columns of the anomalies frame);
\* credentials: both smtp_username and smtp_password are non-empty.
EmailSettings ==
    [ enabled : BOOLEAN, recipients : BOOLEAN, keys : BOOLEAN,
      use_tls : BOOLEAN, use_authentication : BOOLEAN, credentials : BOOLEAN ]

EmailInputs ==
    [ settings : EmailSettings, anomalies : {0, 1}, server : ServerBehaviours ]

NoEmailInput ==
    [ settings |-> [ enabled |-> FALSE, recipients |-> FALSE, keys |-> FALSE,
                     use_tls |-> FALSE, use_authentication |-> FALSE,
                     credentials |-> FALSE ],
      anomalies |-> 0,
      server |-> [ st \in SmtpSteps |-> "ok" ] ]

NoEmailOutput ==
    [ who |-> "none", value |-> "none", raised |-> FALSE, attempts |-> 0,
      opened |-> 0, quits |-> 0, ctl |-> "returned" ]

\* AlertSystem._send_email: nothing without recipients; every setting is
\* read with a default; "except Exception" prints whatever was raised
AlertSystemSendEmail(es, srv) ==
    LET auth == IF ~es.use_authentication THEN << >>
                ELSE IF es.credentials THEN << "login" >> ELSE << "check" >>
        r == IF es.recipients THEN RunSmtp(TryBody(es.use_tls, auth), srv)
             ELSE NoSession
    IN  [ who |-> "alert_system", value |-> "none", raised |-> FALSE,
          attempts |-> r.attempts, opened |-> r.opened, quits |-> r.quits,
          ctl |-> IF r.ctl = "blocked" THEN "blocked" ELSE "returned" ]

\* EmailAlertSystem._send_smtp: login is skipped when a credential is empty
EmailAlertSendSmtp(es, srv) ==
    LET auth == IF es.use_authentication /\ es.credentials
                THEN << "login" >> ELSE << >>
    IN  RunSmtp(TryBody(es.use_tls, auth), srv)

\* send_alert without its "except Exception": what is raised escapes
EmailAlertSendAlertNoCatch(es, n, srv) ==
    IF ~es.enabled \/ n = 0 \/ ~es.recipients
    THEN [ who |-> "email_alert", value |-> "False", raised |-> FALSE,
           attempts |-> 0, opened |-> 0, quits |-> 0, ctl |-> "returned" ]
    ELSE LET r == IF es.keys THEN EmailAlertSendSmtp(es, srv)
                  ELSE [ NoSession EXCEPT !.ctl = "raised" ]
         IN  [ who |-> "email_alert",
               value |-> IF r.ctl = "returned" THEN "True" ELSE "none",
               raised |-> r.ctl = "raised",
               attempts |-> r.attempts, opened |-> r.opened,
               quits |-> r.quits,
               ctl |-> IF r.ctl = "blocked" THEN "blocked" ELSE "returned" ]

\* EmailAlertSystem.send_alert(anomalies, threshold) with n anomalies.  The
\* three early returns; then, inside "try", the message is built (KeyError
\* when a key read with [] is absent), _send_smtp is called and True is
\* returned; "except Exception" returns False.
EmailAlertSendAlert(es, n, srv) ==
    IF ~es.enabled \/ n = 0 \/ ~es.recipients
    THEN [ who |-> "email_alert", value |-> "False", raised |-> FALSE,
           attempts |-> 0, opened |-> 0, quits |-> 0, ctl |-> "returned" ]
    ELSE LET r == IF es.keys THEN EmailAlertSendSmtp(es, srv)
                  ELSE [ NoSession EXCEPT !.ctl = "raised" ]
         IN  [ who |-> "email_alert",
               value |-> IF r.ctl = "returned" THEN "True"
                         ELSE IF r.ctl = "raised" THEN "False" ELSE "none",
               raised |-> FALSE,
               attempts |-> r.attempts, opened |-> r.opened,
               quits |-> r.quits,
               ctl |-> IF r.ctl = "blocked" THEN "blocked" ELSE "returned" ]

(***************************************************************************)
(* Configurations                                                          *)
(***************************************************************************)
\* isolation_forest.contamination: the default 0.02 and sklearn's maximum 0.5
Contaminations == { [num |-> 1, den |-> 50], [num |-> 1, den |-> 2] }

\* Besides what the six arguments give:
\*   random_state         isolation_forest.random_state, 42 unless given
\*   smtp_credentials     FALSE when email_settings.use_authentication is set
\*                        and smtp_username or smtp_password is empty
\*   reconciliation_mode  a reconciliation mode written in config.json; no
\*                        code reads such a key
Config(en, va, em, te, sl, co) ==
    [ enabled |-> en, variant |-> va, emails |-> em, teams |-> te,
      slack |-> sl, contamination |-> co, random_state |-> Some(42),
      smtp_credentials |-> TRUE, reconciliation_mode |-> "OutlierOnly" ]

AllConfigs ==
    { [ Config(en, va, em, te, sl, co) EXCEPT !.smtp_credentials = cr ] :
        en \in BOOLEAN, va \in Variants, em \in BOOLEAN, te \in BOOLEAN,
        sl \in BOOLEAN, co \in Contaminations, cr \in BOOLEAN }

\* the configurations explored together with every input batch
Scenarios ==
    { Config(TRUE, "HEAD", TRUE, FALSE, FALSE, [num |-> 1, den |-> 50]),
      [ Config(FALSE, "b766129", FALSE, FALSE, FALSE, [num |-> 1, den |-> 2])
          EXCEPT !.reconciliation_mode = "Union" ],
      Config(FALSE, "b766129", FALSE, TRUE, TRUE, [num |-> 1, den |-> 2]) }

\* anomaly_detector.py reads none of main.py's configuration
NoConfig == Config(FALSE, "HEAD", FALSE, FALSE, FALSE, [num |-> 1, den |-> 50])
NoSetting == [kind |-> "missing", v |-> 0]

\* input batches explored together with every configuration
AlertBatches ==
    { << >>,
      << Row(1, 1, 0), Row(1, 2, 1) >>,
      << Row(1, 1, 0), Row(1, 2, 1), Row(2, 1, -1), Row(2, 2, 0) >>,
      << Row(1, 1, 0), Row(1, 1, 0), Row(1, 2, 1), Row(1, 2, 1) >> }

(***************************************************************************)
(* Initial states: the objects are constructed, nothing has run            *)
(***************************************************************************)
InitRun ==
    /\ pc = "start"
    /\ result = "running"
    /\ percentage_threshold = None
    /\ df = << >>
    /\ excluded = 0
    /\ loaded = "no"
    /\ featured = FALSE
    /\ computed = FALSE
    /\ fits = 0
    /\ fitted = FALSE
    /\ oracle = NoScores
    /\ calls = << >>
    /\ df_clean = << >>
    /\ anomalies = << >>
    /\ table = << >>
    /\ records_saved = 0
    /\ alerts = << >>
    /\ llm_calls = << >>
    /\ sent = << >>
    /\ printed = {}
    /\ report = << >>
    /\ email_out = NoEmailOutput

Init ==
    /\ InitRun
    /\ email_in = NoEmailInput
    /\ \/ prog = "stat" /\ setting \in SettingRows /\ cfg = NoConfig
       \/ prog = "main" /\ setting = NoSetting /\ cfg \in Scenarios

InitAlert ==
    /\ InitRun
    /\ email_in = NoEmailInput
    /\ prog = "main" /\ setting = NoSetting /\ cfg \in AllConfigs

Raise ==
    /\ result' = "error"
    /\ pc' = "done"

Return ==
    /\ result' = "ok"
    /\ pc' = "done"

(***************************************************************************)
(* run_detection (src/anomaly_detector.py)                                 *)
(***************************************************************************)
\* self.percentage_threshold = self.get_percentage_threshold()
GetThreshold ==
    /\ prog = "stat" /\ pc = "start"
    /\ LET r == GetPercentageThreshold(setting)
       IN  IF r.raised
           THEN Raise /\ UNCHANGED percentage_threshold
           ELSE /\ percentage_threshold' = Some(r.value)
                /\ pc' = "load"
                /\ UNCHANGED result
    /\ UNCHANGED << prog, excluded, fitted, oracle, calls, df_clean, setting,
                    cfg, df, loaded, featured, computed, fits, anomalies,
                    table, records_saved, alerts, llm_calls, sent, printed,
                    report, email_in, email_out >>

\* "AND ISNULL(A.curDebit,0) - ISNULL(A.curCredit,0) > 0"
PositiveAmount(r) == r.amount > 0

WhereAny(src) == src

WherePositive(src) == SelectSeq(src, PositiveAmount)

\* "if len(df) == 0: return pd.DataFrame(), 0"
EmptyExitNever(b) == FALSE

EmptyExit(b) == Len(b) = 0

\* df = self.load_transaction_data(), then the empty-window exit
LoadTransactionData ==
    /\ prog = "stat" /\ pc = "load"
    /\ \E src \in Batches(SourceAmounts) :
         LET b == WherePositive(src)
         IN  /\ df' = b
             /\ excluded' = Len(src) - Len(b)
             /\ loaded' = "ok"
             /\ IF EmptyExit(b)
                THEN Return
                ELSE pc' = "detect" /\ UNCHANGED result
    /\ UNCHANGED << prog, fitted, oracle, calls, df_clean, setting,
                    percentage_threshold, cfg, featured, computed, fits,
                    anomalies, table, records_saved, alerts, llm_calls, sent,
                    printed, report, email_in, email_out >>

\* pd.read_sql raises (source unreachable): printed and re-raised
LoadFails ==
    /\ pc = "load"
    /\ loaded' = "failed"
    /\ Raise
    /\ UNCHANGED << prog, excluded, fitted, oracle, calls, df_clean, setting,
                    percentage_threshold, cfg, df, featured, computed, fits,
                    anomalies, table, records_saved, alerts, llm_calls, sent,
                    printed, report, email_in, email_out >>

\* anomalies = self.calculate_averages_and_detect(df); the anomaly rate
\* printed at the end divides by len(df)
Detect ==
    /\ prog = "stat" /\ pc = "detect"
    /\ computed' = TRUE
    /\ IF Len(df) = 0
       THEN Raise /\ UNCHANGED anomalies
       ELSE /\ anomalies' = CalculateAveragesAndDetect(df, percentage_threshold.v)
            /\ pc' = "save"
            /\ UNCHANGED result
    /\ UNCHANGED << prog, excluded, fitted, oracle, calls, df_clean, setting,
                    percentage_threshold, cfg, df, loaded, featured, fits,
                    table, records_saved, alerts, llm_calls, sent, printed,
                    report, email_in, email_out >>

\* records_saved = self.save_anomalies_to_database(anomalies)
SaveAnomalies ==
    /\ prog = "stat" /\ pc = "save"
    /\ IF Len(anomalies) = 0
       THEN Return /\ UNCHANGED << table, records_saved >>
       ELSE \E ok \in BOOLEAN :
              IF ok
              THEN /\ table' = table \o anomalies
                   /\ records_saved' = Len(anomalies)
                   /\ Return
              ELSE Raise /\ UNCHANGED << table, records_saved >>
    /\ UNCHANGED << prog, excluded, fitted, oracle, calls, df_clean, setting,
                    percentage_threshold, cfg, df, loaded, featured, computed,
                    fits, anomalies, alerts, llm_calls, sent, printed, report,
                    email_in, email_out >>

(***************************************************************************)
(* run (src/main.py)                                                       *)
(***************************************************************************)
\* run is entered: the banner is printed
StartRun ==
    /\ prog = "main" /\ pc = "start"
    /\ pc' = "load"
    /\ UNCHANGED << prog, excluded, fitted, oracle, calls, df_clean, result,
                    setting, percentage_threshold, cfg, df, loaded, featured,
                    computed, fits, anomalies, table, records_saved, alerts,
                    llm_calls, sent, printed, report, email_in, email_out >>

\* 1. df = self.load_data()
LoadData(B) ==
    /\ prog = "main" /\ pc = "load"
    /\ \E b \in B :
         /\ df' = b
         /\ loaded' = "ok"
         /\ pc' = "features"
    /\ UNCHANGED << prog, excluded, fitted, oracle, calls, df_clean, result,
                    setting, percentage_threshold, cfg, featured, computed,
                    fits, anomalies, table, records_saved, alerts, llm_calls,
                    sent, printed, report, email_in, email_out >>

\* 2. df = self.prepare_features(df)
PrepareFeatures ==
    /\ prog = "main" /\ pc = "features"
    /\ featured' = TRUE
    /\ pc' = "detect"
    /\ UNCHANGED << prog, excluded, fitted, oracle, calls, df_clean, result,
                    setting, percentage_threshold, cfg, df, loaded, computed,
                    fits, anomalies, table, records_saved, alerts, llm_calls,
                    sent, printed, report, email_in, email_out >>

\* detect_anomalies(df) on this instance: the state it leaves and its result
DetectAnomaliesCall ==
    LET E == Eligible(df)
    IN  IF NoValidData(E)
        THEN /\ anomalies' = << >>
             /\ calls' = Append(calls, [flagged |-> << >>, clean |-> << >>,
                                        warm |-> fitted])
             /\ UNCHANGED << fits, fitted, oracle, df_clean >>
        ELSE \E fresh \in [E -> ScoreVals] :
               LET sc == FitScores(cfg.random_state, fitted, oracle, fresh)
                   clean == DfClean(df, E, sc, cfg.contamination)
                   found == DetectAnomalies(df, E, sc, cfg.contamination)
               IN  /\ df_clean' = clean
                   /\ anomalies' = found
                   /\ fits' = fits + 1
                   /\ fitted' = TRUE
                   /\ oracle' = IF cfg.random_state.some
                                 THEN [some |-> TRUE, v |-> sc] ELSE oracle
                   /\ calls' = Append(calls, [flagged |-> found,
                                              clean |-> clean, warm |-> fitted])

\* 3. anomalies = self.detect_anomalies(df)
DetectMain ==
    /\ prog = "main" /\ pc = "detect"
    /\ computed' = TRUE
    /\ pc' = "compose"
    /\ DetectAnomaliesCall
    /\ UNCHANGED << prog, excluded, result, setting, percentage_threshold,
                    cfg, df, loaded, featured, table, records_saved, alerts,
                    llm_calls, sent, printed, report, email_in, email_out >>

\* detect_anomalies is called again on the same frame, before anything else
\* is done with the first result
DetectAgain ==
    /\ prog = "main" /\ pc = "compose"
    /\ Len(calls) < MaxCalls
    /\ alerts = << >>
    /\ DetectAnomaliesCall
    /\ UNCHANGED << prog, excluded, pc, result, setting, percentage_threshold,
                    cfg, df, loaded, featured, computed, table, records_saved,
                    alerts, llm_calls, sent, printed, report, email_in,
                    email_out >>

\* AnomalyDetector(config_path) is constructed again from the same
\* configuration: _setup_isolation_forest makes a new model and scaler
NewInstance ==
    /\ prog = "main" /\ pc = "compose"
    /\ fitted
    /\ alerts = << >>
    /\ fitted' = FALSE
    /\ UNCHANGED << prog, excluded, oracle, calls, df_clean, pc, result,
                    setting, percentage_threshold, cfg, df, loaded, featured,
                    computed, fits, anomalies, table, records_saved, alerts,
                    llm_calls, sent, printed, report, email_in, email_out >>

\* 4. alerts = self.generate_alert_messages(anomalies), no anomaly
ComposeNone ==
    /\ prog = "main" /\ pc = "compose"
    /\ Len(anomalies) = 0
    /\ pc' = "send"
    /\ UNCHANGED << prog, excluded, fitted, oracle, calls, df_clean, result,
                    setting, percentage_threshold, cfg, df, loaded, featured,
                    computed, fits, anomalies, table, records_saved, alerts,
                    llm_calls, sent, printed, report, email_in, email_out >>

\* 4. one iteration of "for idx, row in anomalies.iterrows()"
ComposeStep ==
    /\ prog = "main" /\ pc = "compose"
    /\ Len(alerts) < Len(anomalies)
    /\ \E o \in (IF cfg.enabled THEN LLMOutcomes
                 ELSE { [kind |-> "disabled", body |-> << >>] }) :
         LET a == ComposeOne(cfg, anomalies[Len(alerts) + 1], o)
         IN  /\ alerts' = Append(alerts, [data |-> a.data, message |-> a.message])
             /\ llm_calls' = Append(llm_calls,
                    [calls |-> a.calls, path |-> a.path, kind |-> o.kind])
    /\ pc' = IF Len(alerts) + 1 = Len(anomalies) THEN "send" ELSE "compose"
    /\ UNCHANGED << prog, excluded, fitted, oracle, calls, df_clean, result,
                    setting, percentage_threshold, cfg, df, loaded, featured,
                    computed, fits, anomalies, table, records_saved, sent,
                    printed, report, email_in, email_out >>

\* 5. self.send_alerts(alerts), "if not alerts: return"
SendNone ==
    /\ prog = "main" /\ pc = "send"
    /\ Len(alerts) = 0
    /\ pc' = "report"
    /\ UNCHANGED << prog, excluded, fitted, oracle, calls, df_clean, result,
                    setting, percentage_threshold, cfg, df, loaded, featured,
                    computed, fits, anomalies, table, records_saved, alerts,
                    llm_calls, sent, printed, report, email_in, email_out >>

\* 5. one iteration of "for alert in alerts": send_alert inside try/except
\* Exception; after the last one the closing line is printed
SendStep ==
    /\ prog = "main" /\ pc = "send"
    /\ Len(sent) < Len(alerts)
    /\ \E oe \in (IF cfg.emails THEN EmailOutcomes ELSE {"ok"}),
          ot \in (IF cfg.teams THEN WebhookOutcomes ELSE {"ok"}),
          os \in (IF cfg.slack THEN WebhookOutcomes ELSE {"ok"}) :
         LET r == SendAlert(cfg, oe, ot, os)
         IN  /\ sent' = Append(sent, r)
             /\ IF r.ctl = "blocked"
                THEN pc' = "blocked" /\ UNCHANGED printed
                ELSE IF Len(sent) + 1 = Len(alerts)
                THEN /\ pc' = "report"
                     /\ printed' = printed
                            \cup { [kind |-> "alerts_done", n |-> Len(alerts)] }
                ELSE pc' = "send" /\ UNCHANGED printed
    /\ UNCHANGED << prog, excluded, fitted, oracle, calls, df_clean, result,
                    setting, percentage_threshold, cfg, df, loaded, featured,
                    computed, fits, anomalies, table, records_saved, alerts,
                    llm_calls, report, email_in, email_out >>

\* 6. "if len(anomalies) > 0: self._save_report(anomalies)", then the
\* closing banner; a failed write is re-raised by run
SaveReport ==
    /\ prog = "main" /\ pc = "report"
    /\ Len(anomalies) > 0
    /\ \E ok \in BOOLEAN :
         IF ok
         THEN /\ report' = anomalies
              /\ printed' = printed \cup { [kind |-> "completed", n |-> 0] }
              /\ Return
         ELSE Raise /\ UNCHANGED << report, printed >>
    /\ UNCHANGED << prog, excluded, fitted, oracle, calls, df_clean, setting,
                    percentage_threshold, cfg, df, loaded, featured, computed,
                    fits, anomalies, table, records_saved, alerts, llm_calls,
                    sent, email_in, email_out >>

SkipReport ==
    /\ prog = "main" /\ pc = "report"
    /\ Len(anomalies) = 0
    /\ printed' = printed \cup { [kind |-> "completed", n |-> 0] }
    /\ Return
    /\ UNCHANGED << prog, excluded, fitted, oracle, calls, df_clean, setting,
                    percentage_threshold, cfg, df, loaded, featured, computed,
                    fits, anomalies, table, records_saved, alerts, llm_calls,
                    sent, report, email_in, email_out >>

(***************************************************************************)
(* Specifications                                                          *)
(***************************************************************************)
Common ==
    \/ LoadFails
    \/ StartRun
    \/ PrepareFeatures
    \/ DetectMain
    \/ ComposeNone
    \/ ComposeStep
    \/ SendNone
    \/ SendStep
    \/ SaveReport
    \/ SkipReport

Next ==
    \/ GetThreshold
    \/ LoadTransactionData
    \/ Detect
    \/ SaveAnomalies
    \/ LoadData(Batches(MainAmounts))
    \/ Common

\* both programs, every input batch, the configurations of Scenarios
Spec == Init /\ [][Next]_vars

NextAlert ==
    \/ LoadData(AlertBatches)
    \/ Common

\* main.py, the batches of AlertBatches, every configuration
SpecAlert == InitAlert /\ [][NextAlert]_vars

InitDetect ==
    /\ InitRun
    /\ email_in = NoEmailInput
    /\ prog = "main" /\ setting = NoSetting
    /\ cfg \in { [c EXCEPT !.random_state = r] :
                   c \in Scenarios, r \in {Some(42), None} }

NextDetect ==
    \/ StartRun
    \/ LoadData(AlertBatches)
    \/ PrepareFeatures
    \/ DetectMain
    \/ DetectAgain
    \/ NewInstance

\* detect_anomalies called up to MaxCalls times on one batch, on the same
\* instance or on a new one, with and without a seed
SpecDetect == InitDetect /\ [][NextDetect]_vars

InitEmail ==
    /\ InitRun
    /\ prog = "email" /\ setting = NoSetting /\ cfg = NoConfig
    /\ email_in \in EmailInputs

\* self._send_email(message, alert_data) of an AlertSystem
CallSendEmail ==
    /\ prog = "email" /\ pc = "start"
    /\ email_out' = AlertSystemSendEmail(email_in.settings, email_in.server)
    /\ pc' = IF email_out'.ctl = "blocked" THEN "blocked" ELSE "done"
    /\ result' = IF email_out'.ctl = "blocked" THEN "running" ELSE "ok"
    /\ UNCHANGED << prog, setting, percentage_threshold, cfg, df, excluded,
                    loaded, featured, computed, fits, fitted, oracle, calls,
                    df_clean, anomalies, table, records_saved, alerts,
                    llm_calls, sent, printed, report, email_in >>

\* send_alert(anomalies, threshold) of an EmailAlertSystem
CallSendAlert ==
    /\ prog = "email" /\ pc = "start"
    /\ email_out' = EmailAlertSendAlert(email_in.settings, email_in.anomalies,
                                        email_in.server)
    /\ pc' = IF email_out'.ctl = "blocked" THEN "blocked" ELSE "done"
    /\ result' = IF email_out'.ctl = "blocked" THEN "running"
                 ELSE IF email_out'.raised THEN "error" ELSE "ok"
    /\ UNCHANGED << prog, setting, percentage_threshold, cfg, df, excluded,
                    loaded, featured, computed, fits, fitted, oracle, calls,
                    df_clean, anomalies, table, records_saved, alerts,
                    llm_calls, sent, printed, report, email_in >>

NextEmail ==
    \/ CallSendEmail
    \/ CallSendAlert

\* one email delivery by either class, for every setting and server
SpecEmail == InitEmail /\ [][NextEmail]_vars

(***************************************************************************)
(* Properties                                                              *)
(***************************************************************************)
Flagged(i) == \E k \in 1..Len(anomalies) : anomalies[k].idx = i

\* 100 * (amount - mean) and T * mean of row i, both scaled by the group size
PctScaled(i) ==
    100 * (df[i].amount * AccountCount(df, df[i].accountID)
           - AccountSum(df, df[i].accountID))
ThresholdScaled(i) == percentage_threshold.v * AccountSum(df, df[i].accountID)

StatDetected == prog = "stat" /\ computed /\ pc \in {"save", "done"}

C2_BadThresholdIsFatalBeforeWork ==
    (prog = "stat" /\ setting.kind \in {"missing", "nonnumeric"}) =>
        /\ pc \in {"start", "done"}
        /\ pc = "done" => result = "error"
        /\ percentage_threshold = None
        /\ loaded = "no"
        /\ ~computed
        /\ anomalies = << >>
        /\ table = << >>

C2_Witness ==
    /\ prog = "stat" /\ setting.kind = "nonnumeric"
    /\ pc = "done" /\ result = "error"

\* C3: when the data source returns zero rows, no error is raised, no
\* anomaly exists, nothing is persisted, no alert is composed or sent and no
\* report is written; the run ends with run_detection returning (empty, 0)
\* and main's run completing.
C3_EmptyWindowIsNormal ==
    (loaded = "ok" /\ Len(df) = 0) =>
        /\ result # "error"
        /\ pc = "done" => result = "ok"
        /\ anomalies = << >>
        /\ records_saved = 0
        /\ table = << >>
        /\ alerts = << >>
        /\ sent = << >>
        /\ report = << >>
        /\ fits = 0
        /\ prog = "stat" => pc = "done" /\ ~computed

C3_Witness ==
    /\ prog = "main" /\ loaded = "ok" /\ Len(df) = 0
    /\ pc = "done" /\ result = "ok"

\* every anomaly is the input record it points to, unchanged, and no input
\* record is taken twice
FromInput ==
    /\ \A k \in 1..Len(anomalies) :
         /\ anomalies[k].idx \in 1..Len(df)
         /\ anomalies[k].accountID = df[anomalies[k].idx].accountID
         /\ anomalies[k].dtmDate = df[anomalies[k].idx].dtmDate
         /\ anomalies[k].amount = df[anomalies[k].idx].amount
    /\ \A j, k \in 1..Len(anomalies) :
         j < k => anomalies[j].idx < anomalies[k].idx

\* C4 as claimed: the anomaly set returned by detection is a strict subset
\* of the input records, for every batch and configuration: only unchanged
\* input records, and never the whole input.
C4_StrictSubsetAlways ==
    computed => FromInput /\ Len(anomalies) < Len(df)

\* C4 as amended: the anomaly set holds only unchanged input records, each
\* at most once; it is smaller than a non-empty input whenever the outlier
\* model decides or the threshold of the statistical rule is positive.
C4_SubsetStrictForPositiveThreshold ==
    computed =>
        /\ FromInput
        /\ (Len(df) > 0 /\ (prog = "main" \/ percentage_threshold.v > 0))
              => Len(anomalies) < Len(df)

C4_Witness ==
    /\ prog = "stat" /\ computed /\ percentage_threshold.v > 0
    /\ Len(anomalies) >= 1 /\ Len(anomalies) < Len(df)

\* C5: no (accountID, date) pair appears twice in the anomaly set, also
\* when the source returns several rows for one account and date.
C5_NoDuplicateKey ==
    \A j, k \in 1..Len(anomalies) :
        j # k => \/ anomalies[j].accountID # anomalies[k].accountID
                 \/ anomalies[j].dtmDate # anomalies[k].dtmDate

\* C6: every alert built by generate_alert_messages carries a non-empty
\* narrative, whatever the generator answered.
C6_NarrativeNeverEmpty ==
    \A k \in 1..Len(alerts) : alerts[k].message # << >>

Contains(t, tok) == \E i \in 1..Len(t) : t[i] = tok

\* C7: when the generator is disabled or its call raises, the narrative is
\* the fallback text: not empty, with the account number, the amount and the
\* ratio of the record, and the same text for the same alert data.
C7_FallbackCarriesFields ==
    /\ \A k \in 1..Len(alerts) :
         /\ llm_calls[k].kind \in {"disabled", "timeout", "http_error", "not_json"}
              => llm_calls[k].path # "llm"
         /\ llm_calls[k].path # "llm" =>
              /\ alerts[k].message # << >>
              /\ Contains(alerts[k].message,
                          Tok("account_number", 1000 + anomalies[k].accountID))
              /\ Contains(alerts[k].message,
                          Tok("amount", 100 * anomalies[k].amount))
              /\ Contains(alerts[k].message,
                          Tok("ratio", Fmt2(alerts[k].data.ratio.num,
                                            alerts[k].data.ratio.den)))
    /\ \A j, k \in 1..Len(alerts) :
         (llm_calls[j].path # "llm" /\ llm_calls[k].path # "llm"
          /\ alerts[j].data = alerts[k].data)
            => alerts[j].message = alerts[k].message

\* two anomalies with the same alert data, one fallback after a timeout and
\* one after another error
C7_Witness ==
    /\ Len(alerts) = 2
    /\ alerts[1].data = alerts[2].data
    /\ llm_calls[1].kind = "timeout" /\ llm_calls[1].path = "fallback"
    /\ llm_calls[2].kind = "http_error" /\ llm_calls[2].path = "fallback"

Configured(ch) ==
    IF ch = "email" THEN cfg.emails
    ELSE IF ch = "teams" THEN cfg.teams ELSE cfg.slack

Count(k, r) == Cardinality({ ch \in Channels : sent[k].res[ch] = r })

\* C10: when an alert fails on one channel and succeeds on the two others,
\* the run's summary records 2 successes and 1 failure for it.
C10_SummaryCounts ==
    \A k \in 1..Len(sent) :
        (pc = "done" /\ result = "ok" /\ Count(k, "ok") = 2 /\ Count(k, "fail") = 1)
          => \E line \in printed :
               /\ line.kind = "summary"
               /\ line.successes = 2
               /\ line.failures = 1

\* the dispatch loop takes no further step: send_alerts has returned, or
\* the run is held inside a delivery that never returns
DispatchOver == prog = "main" /\ loaded = "ok" /\ pc \in {"blocked", "report", "done"}

\* C11: generate_alert_messages builds exactly one alert per anomaly record,
\* in order and from that record's data, also when the generator fails; and
\* every alert of the list is handed to send_alert exactly once in the run.
C11_OneAlertPerAnomalyHandedOnce ==
    /\ Len(alerts) <= Len(anomalies)
    /\ \A k \in 1..Len(alerts) : alerts[k].data = AlertData(anomalies[k])
    /\ (prog = "main" /\ pc \in {"send", "blocked", "report", "done"}
        /\ loaded = "ok") => Len(alerts) = Len(anomalies)
    /\ Len(sent) <= Len(alerts)
    /\ DispatchOver => Len(sent) = Len(alerts)

\* C12: every external call of a run is bounded by a timeout: no call blocks
\* forever, so no run is held inside a call that never returns.
C12_NoCallBlocksForever ==
    /\ pc # "blocked"
    /\ \A k \in 1..Len(sent) : sent[k].ctl # "blocked"

\* a feature of row i is NaN: zero mean, zero or undefined standard
\* deviation (fewer than 2 records, or all amounts equal), or zero median
FeatureUndefined(i) ==
    \/ AccountSum(df, df[i].accountID) = 0
    \/ AccountCount(df, df[i].accountID) < 2
    \/ \A j \in Group(df, df[i].accountID) : df[j].amount = df[i].amount
    \/ MedianTwice(df, df[i].accountID) = 0

\* C13: a record with an undefined or non-finite feature is never among the
\* rows given to the outlier model and never in its result; the statistical
\* rule of calculate_averages_and_detect still evaluates such a record, from
\* its amount and its account's mean alone.
C13_UndefinedFeatureNeverReachesModel ==
    /\ prog = "main" =>
         \A i \in 1..Len(df) :
             FeatureUndefined(i) => i \notin DOMAIN df_clean /\ ~Flagged(i)
    /\ StatDetected =>
         \A i \in 1..Len(df) :
             FeatureUndefined(i) =>
                 (Flagged(i) <=> PctScaled(i) >= ThresholdScaled(i))

\* a batch with a single-record account next to an account the model was
\* fitted on, one of whose records is an outlier
C13_Witness ==
    /\ prog = "main" /\ computed
    /\ \E i \in 1..Len(df) : FeatureUndefined(i)
    /\ DOMAIN df_clean # {}
    /\ Len(anomalies) >= 1

\* C14: when every record of the batch has an undefined feature, or the
\* batch is empty, detect_anomalies returns an empty result: nothing is
\* raised, neither the scaler nor the model is fitted, no row reaches the
\* model, and the run goes on to complete without alerts.
C14_NoEligibleRecordReturnsEmpty ==
    (prog = "main" /\ computed /\ \A i \in 1..Len(df) : FeatureUndefined(i)) =>
        /\ anomalies = << >>
        /\ fits = 0
        /\ DOMAIN df_clean = {}
        /\ result # "error"
        /\ pc = "done" => result = "ok"
        /\ alerts = << >> /\ sent = << >> /\ report = << >>

\* a non-empty batch without any eligible record, run to completion
C14_Witness ==
    /\ prog = "main" /\ computed /\ Len(df) >= 2
    /\ \A i \in 1..Len(df) : FeatureUndefined(i)
    /\ pc = "done" /\ result = "ok"

\* the percentage rule with threshold T flags row i of the batch
RuleFlags(i, T) ==
    PctGE(df[i].amount, AccountSum(df, df[i].accountID),
          AccountCount(df, df[i].accountID), T)

ModelFlags(i) == i \in DOMAIN df_clean /\ df_clean[i].if_prediction = -1

\* C15: with Union reconciliation configured there is a threshold T of the
\* statistical rule such that a record is an anomaly if and only if the
\* outlier model or the rule flagged it (so the result contains each
\* detector's flagged set), and no alert for a record the rule flagged names
\* the outlier model as its only detection method.
C15_UnionOfBothDetectors ==
    (prog = "main" /\ cfg.reconciliation_mode = "Union" /\ computed) =>
        \E T \in Thresholds :
            /\ \A i \in 1..Len(df) :
                   Flagged(i) <=> (ModelFlags(i) \/ RuleFlags(i, T))
            /\ \A k \in 1..Len(alerts) :
                   RuleFlags(anomalies[k].idx, T) =>
                       alerts[k].data.detection_method # "Isolation Forest"

\* C16: in the main pipeline (OutlierOnly) a record given to the model is in
\* the anomaly set if and only if its prediction is -1, a record not given
\* to the model is never in it, and each anomaly is its df_clean row; what
\* the statistical rule would say of the record plays no part.
C16_OutlierOnlyMembership ==
    (prog = "main" /\ cfg.reconciliation_mode = "OutlierOnly" /\ computed) =>
        /\ \A i \in DOMAIN df_clean :
               Flagged(i) <=> df_clean[i].if_prediction = -1
        /\ \A i \in 1..Len(df) : Flagged(i) => i \in DOMAIN df_clean
        /\ \A k \in 1..Len(anomalies) :
               anomalies[k] = df_clean[anomalies[k].idx]

\* the model flags a record that the rule flags at no threshold, and leaves
\* out a record that the rule flags at every threshold
C16_Witness ==
    /\ prog = "main" /\ cfg.reconciliation_mode = "OutlierOnly" /\ computed
    /\ \E i, j \in DOMAIN df_clean :
         /\ Flagged(i) /\ \A T \in Thresholds : ~RuleFlags(i, T)
         /\ ~Flagged(j) /\ \A T \in Thresholds : RuleFlags(j, T)

\* C17: every anomaly record carries the threshold used, equal to the
\* threshold loaded at the start of the run, and every record of the
\* outlier pipeline carries its outlier score (a record of the statistical
\* rule alone may have none); the alert data built from a record carries
\* both as well.
C17_RecordsCarryProvenance ==
    /\ \A k \in 1..Len(anomalies) :
         /\ "threshold_used" \in DOMAIN anomalies[k]
         /\ percentage_threshold.some
         /\ anomalies[k].threshold_used = percentage_threshold.v
         /\ prog = "main" => "if_score" \in DOMAIN anomalies[k]
    /\ \A k \in 1..Len(alerts) :
         /\ "threshold_used" \in DOMAIN alerts[k].data
         /\ "isolation_score" \in DOMAIN alerts[k].data

C19_MissingCredentialsFatalBeforeWork ==
    (prog = "main" /\ cfg.emails /\ ~cfg.smtp_credentials) =>
        /\ pc \in {"start", "done"}
        /\ pc = "done" => result = "error"
        /\ loaded = "no"
        /\ ~computed
        /\ sent = << >>

\* C20: the result of calculate_averages_and_detect holds, for every record
\* of the batch it evaluated, flagged or not, a row with that record's
\* percentage difference from its account's average.
C20_PctDiffForEveryEvaluatedRecord ==
    StatDetected =>
        \A i \in 1..Len(df) :
            \E k \in 1..Len(anomalies) :
                /\ anomalies[k].idx = i
                /\ anomalies[k].pct_diff_from_avg = PctDiff(df, i)

\* C21: every record the statistical detector evaluates or flags has a
\* positive amount, and the sum and count behind the mean of each flagged
\* record are those of the positive-amount records of its account.
C21_StatisticalRuleOnPositiveAmounts ==
    prog = "stat" =>
        /\ \A i \in 1..Len(df) : df[i].amount > 0
        /\ \A k \in 1..Len(anomalies) :
             /\ anomalies[k].amount > 0
             /\ anomalies[k].sum =
                  SumOver(df, { i \in Group(df, anomalies[k].accountID) :
                                  df[i].amount > 0 })
             /\ anomalies[k].n =
                  Cardinality({ i \in Group(df, anomalies[k].accountID) :
                                  df[i].amount > 0 })

\* the window held rows that are not positive, they were left out, and a
\* record of what remained was flagged
C21_Witness ==
    /\ StatDetected
    /\ excluded >= 1
    /\ Len(anomalies) >= 1
    /\ Len(anomalies) < Len(df)

\* C22: for each anomaly record the generator is asked at most once; with
\* the generator disabled it is not asked at all; after a timeout or any
\* other error of the one request the narrative is the fallback text, with
\* no second request.
C22_AtMostOneRequestNoRetry ==
    /\ Len(llm_calls) = Len(alerts)
    /\ \A k \in 1..Len(llm_calls) :
         /\ llm_calls[k].calls <= 1
         /\ ~cfg.enabled => llm_calls[k].calls = 0 /\ llm_calls[k].path = "fallback"
         /\ llm_calls[k].kind \in {"timeout", "http_error", "not_json"} =>
              /\ llm_calls[k].calls = 1
              /\ llm_calls[k].path = "fallback"
              /\ alerts[k].message = GeneratorFallback(cfg.variant, alerts[k].data)

\* one request timed out and the next anomaly still got its own request
C22_Witness ==
    /\ Len(llm_calls) = 2
    /\ llm_calls[1].kind = "timeout" /\ llm_calls[1].calls = 1
    /\ llm_calls[2].kind = "text" /\ llm_calls[2].calls = 1

\* C23: detect_anomalies flags nothing and raises nothing when fewer than 2
\* records of the batch have all their features defined, and when the model
\* cannot tell the records it was given apart (equal scores, as for records
\* with equal features); it is never given exactly one record.
C23_DegenerateBatchFlagsNothing ==
    (prog = "main" /\ computed) =>
        /\ Cardinality({ i \in 1..Len(df) : ~FeatureUndefined(i) }) < 2 =>
             anomalies = << >> /\ result # "error"
        /\ (\A i, j \in DOMAIN df_clean :
                df_clean[i].if_score = df_clean[j].if_score) =>
             anomalies = << >> /\ result # "error"
        /\ Cardinality(DOMAIN df_clean) # 1

\* the model was fitted on records it scored alike, flagged none of them,
\* and the run completed
C23_Witness ==
    /\ prog = "main" /\ computed
    /\ DOMAIN df_clean # {}
    /\ \A i, j \in DOMAIN df_clean :
         df_clean[i].if_score = df_clean[j].if_score
    /\ anomalies = << >>
    /\ pc = "done" /\ result = "ok"

\* the run of main.py has ended, or is held for ever inside a delivery,
\* without the report write itself having failed
RunOver == prog = "main" /\ (pc = "blocked" \/ (pc = "done" /\ result = "ok"))

\* C24: in run() nothing is prepared before the load, detected before the
\* features, composed before detection, dispatched before every narrative
\* is composed, or written before every alert has been handed over; and
\* once the run is over the report holds the anomalies if there is at least
\* one anomaly and is absent otherwise, whatever the generator and the
\* channels did.
C24_StagesInOrderReportIffAnomaly ==
    prog = "main" =>
        /\ featured => loaded = "ok"
        /\ computed => featured
        /\ alerts # << >> => computed
        /\ sent # << >> => Len(alerts) = Len(anomalies)
        /\ report # << >> =>
             /\ Len(sent) = Len(alerts)
             /\ \A k \in 1..Len(sent) : sent[k].ctl = "returned"
             /\ report = anomalies
        /\ RunOver => (report # << >> <=> Len(anomalies) > 0)

\* the try block of the delivery failed: a statement before "finally" raised
TryBlockFailed ==
    LET es == email_in.settings
        srv == email_in.server
    IN  \/ es.use_tls /\ srv["starttls"] = "raise"
        \/ /\ es.use_tls => srv["starttls"] = "ok"
           /\ es.use_authentication
           /\ \/ email_out.who = "alert_system" /\ ~es.credentials
              \/ es.credentials /\ srv["login"] = "raise"
        \/ /\ es.use_tls => srv["starttls"] = "ok"
           /\ (es.use_authentication /\ es.credentials) => srv["login"] = "ok"
           /\ (es.use_authentication /\ ~es.credentials)
                  => email_out.who = "email_alert"
           /\ srv["send"] = "raise"

\* C25: every SMTP connection opened for an email delivery by either class
\* has had quit called on it exactly once by the time the delivery attempt
\* is over, whether TLS setup, authentication or sending succeeded or
\* failed; no connection is opened twice and quit is never called without a
\* connection.
C25_OpenedConnectionQuitOnce ==
    /\ email_out.quits <= email_out.opened
    /\ email_out.opened <= 1
    /\ (prog = "email" /\ pc = "done") => email_out.quits = email_out.opened

\* a delivery whose try block failed after the connection was opened is over
\* and quit was called once
C25_Witness ==
    /\ prog = "email" /\ pc = "done"
    /\ TryBlockFailed
    /\ email_out.opened = 1 /\ email_out.quits = 1

\* send_alert returns before "try": disabled, no anomalies or no recipient
EarlyReturn ==
    \/ ~email_in.settings.enabled
    \/ email_in.anomalies = 0
    \/ ~email_in.settings.recipients

\* every SMTP statement of EmailAlertSystem._send_smtp that the settings ask
\* for is accepted by the server
AttemptWithoutError ==
    LET es == email_in.settings
        srv == email_in.server
    IN  /\ srv["connect"] = "ok"
        /\ es.use_tls => srv["starttls"] = "ok"
        /\ (es.use_authentication /\ es.credentials) => srv["login"] = "ok"
        /\ srv["send"] = "ok"
        /\ srv["quit"] = "ok"

SendAlertCalled ==
    prog = "email" /\ pc # "start" /\ email_out.who = "email_alert"

\* C26 as stated: send_alert never raises; it returns False without opening
\* a connection when email is disabled, there are no anomalies or no
\* recipient; otherwise it makes exactly one send attempt and returns True
\* iff that attempt completed without error.
C26_ExactlyOneSendAttempt ==
    SendAlertCalled =>
        /\ ~email_out.raised
        /\ EarlyReturn => /\ email_out.value = "False"
                          /\ email_out.attempts = 0 /\ email_out.opened = 0
        /\ ~EarlyReturn => /\ email_out.attempts = 1
                           /\ email_out.value = "True" <=> AttemptWithoutError

\* C26 amended: send_alert never raises; it returns False without opening a
\* connection when email is disabled, there are no anomalies or no
\* recipient; otherwise it makes at most one send attempt, none exactly when
\* building the message fails on a missing key (then it returns False), and
\* it returns True iff the attempt was made and completed without error,
\* False iff it was not made or ended with an error.
C26_AtMostOneSendAttempt ==
    SendAlertCalled =>
        /\ ~email_out.raised
        /\ EarlyReturn => /\ email_out.value = "False"
                          /\ email_out.attempts = 0 /\ email_out.opened = 0
        /\ ~EarlyReturn =>
              /\ email_out.attempts = IF email_in.settings.keys THEN 1 ELSE 0
              /\ email_out.value = "True"
                    <=> (email_in.settings.keys /\ AttemptWithoutError)
              /\ pc = "done" => email_out.value \in {"True", "False"}
              /\ ~email_in.settings.keys
                    => pc = "done" /\ email_out.value = "False"

\* send_alert got past the early returns, made its one attempt, the server
\* refused the message, and False was returned
C26_Witness ==
    /\ SendAlertCalled /\ pc = "done"
    /\ ~EarlyReturn /\ email_in.settings.keys
    /\ email_in.server["connect"] = "ok" /\ email_in.server["send"] = "raise"
    /\ email_out.attempts = 1 /\ email_out.value = "False"

====
